---- MODULE Spec2Model ----
(***************************************************************************)
(* Model of run_dustbin_system.py: the Flask request handlers (each        *)
(* request runs on its own worker), the Arduino ingestion thread, the      *)
(* Firestore `users` collection and the Firebase Auth identity service.    *)
(* Every Firestore / Auth call is one atomic step; the Python between two  *)
(* calls runs with the step of the call that precedes it.                  *)
(***************************************************************************)
EXTENDS Integers, Sequences, FiniteSets, TLC

(* ---------------------------- bounds ----------------------------------- *)
MaxEvents == 3         \* what the environment does in one run: requests sent,
                       \* serial lines and faults, clock ticks
LegacyTotal == 3       \* a stored total left behind by an earlier version
MaxBoard == 11         \* documents in the leaderboard specification's stores

Uid == {1, 2}                        \* account identifiers
Worker == {1, 2}                     \* concurrent request workers
NoUid == 0
Null == "null"                       \* Python None in linked_dustbin
Dustbin == {"bin41", "bin42"}
Emails == {"a@x", "b@x"}
NoEmail == "none"
InitEmail(u) == IF u % 2 = 1 THEN "a@x" ELSE "b@x"

VARIABLES
  users,      \* Firestore collection 'users': document id -> document
  authdb,     \* Firebase Auth: uid -> email, NoEmail where there is no identity
  issued,     \* uids the identity service has ever handed out
  wk,         \* Worker -> the request it is serving and its locals
  resp,       \* the last HTTP response sent
  nEvents,    \* environment events still to come in this run
  ing,        \* the ingestion thread: its position and locals
  arduino_status,  \* src 42: {status, last_seen}
  now,        \* time.time()
  ledger      \* per document id: the awards applied while its document exists

vars == <<users, authdb, issued, wk, resp, nEvents, ing, arduino_status, now, ledger>>
api == <<users, authdb, issued, wk, resp, ledger>>
loop == <<ing, arduino_status, now>>

(* --------------------------- documents --------------------------------- *)
\* src 125 / 168: the document register and get_user's auto-create write
NewUserData(email) ==
  [exists |-> TRUE, email |-> email, linked_dustbin |-> Null,
   dry |-> 0, wet |-> 0, ewaste |-> 0, total |-> 0]

\* a document id with no document (user_doc.exists is False)
NoDoc ==
  [exists |-> FALSE, email |-> NoEmail, linked_dustbin |-> Null,
   dry |-> 0, wet |-> 0, ewaste |-> 0, total |-> 0]

\* where('linked_dustbin', '==', d): the documents the equality query matches
LinkedTo(store, d) == {u \in DOMAIN store : store[u].exists /\ store[u].linked_dustbin = d}

\* .limit(1).stream() then next(query, None): one matching document, or None
QueryFirst(store, d) == IF LinkedTo(store, d) = {} THEN {NoUid} ELSE LinkedTo(store, d)

\* the awards applied to a document: none yet
NoAwards == [dry |-> 0, wet |-> 0, ewaste |-> 0]

\* src 157: calculated_total
CalculatedTotal(doc) == (doc.dry * 5) + (doc.wet * 8) + (doc.ewaste * 10)

(* ---------------------------- workers ---------------------------------- *)
Idle == [op |-> "idle", pc |-> "idle", uid |-> NoUid, dustbin_id |-> Null,
         email |-> NoEmail, user_data |-> NoDoc]

NoResp == [op |-> "none", uid |-> NoUid, dustbin_id |-> Null, code |-> 0,
           user_data |-> NoDoc, board |-> <<>>, note |-> "none"]

\* one more thing the environment does
Event ==
  /\ nEvents > 0
  /\ nEvents' = nEvents - 1

\* Flask hands a new request to a free worker (the workers are alike: the
\* first free one); resp holds the latest response until the next request
Accept(w) ==
  /\ wk[w].op = "idle"
  /\ \A v \in Worker : v < w => wk[v].op # "idle"
  /\ Event

\* the handler goes on to its next datastore / identity call
Goto(w, op, pc, uid, d, email, data) ==
  /\ wk' = [wk EXCEPT ![w] = [op |-> op, pc |-> pc, uid |-> uid, dustbin_id |-> d,
                              email |-> email, user_data |-> data]]
  /\ resp' = IF wk[w].op = "idle" THEN NoResp ELSE resp

\* the handler returns: jsonify(...), code
Reply(w, op, uid, d, code, data, board, note) ==
  /\ resp' = [op |-> op, uid |-> uid, dustbin_id |-> d, code |-> code,
              user_data |-> data, board |-> board, note |-> note]
  /\ wk' = [wk EXCEPT ![w] = Idle]

Respond(w, op, uid, d, code) == Reply(w, op, uid, d, code, NoDoc, <<>>, "none")

(* --------------------------- link_dustbin ------------------------------ *)
\* src 194-208: uid and dustbin_id are present; the uniqueness query and the
\* 409 decision
LinkDustbin(w, uid, dustbin_id) ==
  /\ Accept(w)
  /\ \E linked_doc \in QueryFirst(users, dustbin_id) :
       IF linked_doc # NoUid /\ linked_doc # uid
         THEN Respond(w, "link_dustbin", uid, dustbin_id, 409)
         ELSE Goto(w, "link_dustbin", "link_update", uid, dustbin_id, NoEmail, NoDoc)
  /\ UNCHANGED <<users, authdb, issued, ledger, loop>>

\* document(uid).set({'linked_dustbin': value}): the document replaced
UpdateLinkBySet(store, uid, value) ==
  [store EXCEPT ![uid] = [NoDoc EXCEPT !.exists = TRUE, !.linked_dustbin = value]]

\* document(uid).update({'linked_dustbin': value}): the one field
UpdateLink(store, uid, value) == [store EXCEPT ![uid].linked_dustbin = value]

\* src 211-215: the update; update() of a missing document raises NotFound,
\* answered 500
LinkUpdate(w) ==
  /\ wk[w].pc = "link_update"
  /\ IF users[wk[w].uid].exists
       THEN /\ users' = UpdateLink(users, wk[w].uid, wk[w].dustbin_id)
            /\ Reply(w, "link_dustbin", wk[w].uid, wk[w].dustbin_id, 200, NoDoc, <<>>,
                     IF users[wk[w].uid].linked_dustbin = wk[w].dustbin_id
                       THEN "already_linked" ELSE "linked")
       ELSE /\ UNCHANGED users
            /\ Respond(w, "link_dustbin", wk[w].uid, wk[w].dustbin_id, 500)
  /\ UNCHANGED <<authdb, issued, nEvents, ledger, loop>>

(* -------------------------- unlink_dustbin ----------------------------- *)
\* unlink refusing an account that has nothing linked
UnlinkDustbinStrict(w, uid) ==
  /\ Accept(w)
  /\ IF users[uid].exists /\ users[uid].linked_dustbin # Null
       THEN /\ users' = UpdateLink(users, uid, Null)
            /\ Reply(w, "unlink_dustbin", uid, Null, 200, NoDoc, <<>>, "unlinked")
       ELSE /\ UNCHANGED users
            /\ Respond(w, "unlink_dustbin", uid, Null, 500)
  /\ UNCHANGED <<authdb, issued, ledger, loop>>

\* src 219-230: one update() call; NotFound on a missing document gives 500
UnlinkDustbin(w, uid) ==
  /\ Accept(w)
  /\ IF users[uid].exists
       THEN /\ users' = UpdateLink(users, uid, Null)
            /\ Reply(w, "unlink_dustbin", uid, Null, 200, NoDoc, <<>>,
                     IF users[uid].linked_dustbin = Null THEN "already_unlinked" ELSE "unlinked")
       ELSE /\ UNCHANGED users
            /\ Respond(w, "unlink_dustbin", uid, Null, 500)
  /\ UNCHANGED <<authdb, issued, ledger, loop>>

(* ------------------------------ get_user ------------------------------- *)
\* src 148-160, 165: user_ref.get(); a consistent document is returned as read
GetUser(w, uid) ==
  /\ Accept(w)
  /\ LET user_data == users[uid] IN
       IF user_data.exists
         THEN IF CalculatedTotal(user_data) # user_data.total
                THEN Goto(w, "get_user", "gu_fix", uid, Null, NoEmail, user_data)
                ELSE Reply(w, "get_user", uid, Null, 200, user_data, <<>>, "as_stored")
         ELSE Goto(w, "get_user", "gu_auth", uid, Null, NoEmail, NoDoc)
  /\ UNCHANGED <<users, authdb, issued, ledger, loop>>

\* user_ref.update({'points.total': t}): the one field
UpdateTotal(store, uid, t) == [store EXCEPT ![uid].total = t]

\* whether the document still is the one get_user read when it is repaired
RepairNote(w) ==
  IF users[wk[w].uid] = wk[w].user_data THEN "repaired" ELSE "repaired_late"

\* get_user without line 163: the answer keeps the total that was read
GetUserFixStaleReply(w) ==
  /\ wk[w].pc = "gu_fix"
  /\ IF users[wk[w].uid].exists
       THEN /\ users' = [users EXCEPT ![wk[w].uid].total = CalculatedTotal(wk[w].user_data)]
            /\ Reply(w, "get_user", wk[w].uid, Null, 200, wk[w].user_data, <<>>, RepairNote(w))
       ELSE /\ UNCHANGED users
            /\ Respond(w, "get_user", wk[w].uid, Null, 404)
  /\ UNCHANGED <<authdb, issued, nEvents, ledger, loop>>

\* src 160-165, 171-172: the repair write, then the answer with the recomputed
\* total; NotFound (the document was deleted meanwhile) is answered 404
GetUserFix(w) ==
  /\ wk[w].pc = "gu_fix"
  /\ LET calculated_total == CalculatedTotal(wk[w].user_data) IN
       IF users[wk[w].uid].exists
         THEN /\ users' = UpdateTotal(users, wk[w].uid, calculated_total)
              /\ Reply(w, "get_user", wk[w].uid, Null, 200,
                       [wk[w].user_data EXCEPT !.total = calculated_total],
                       <<>>, RepairNote(w))
         ELSE /\ UNCHANGED users
              /\ Respond(w, "get_user", wk[w].uid, Null, 404)
  /\ UNCHANGED <<authdb, issued, nEvents, ledger, loop>>

\* src 167, 171-172: auth.get_user(uid); UserNotFoundError is answered 404
GetUserAuth(w) ==
  /\ wk[w].pc = "gu_auth"
  /\ IF authdb[wk[w].uid] # NoEmail
       THEN Goto(w, "get_user", "gu_set", wk[w].uid, Null, authdb[wk[w].uid], NoDoc)
       ELSE Respond(w, "get_user", wk[w].uid, Null, 404)
  /\ UNCHANGED <<users, authdb, issued, nEvents, ledger, loop>>

\* src 168-170: user_ref.set(user_data) writes the whole document
GetUserSet(w) ==
  /\ wk[w].pc = "gu_set"
  /\ users' = [users EXCEPT ![wk[w].uid] = NewUserData(wk[w].email)]
  /\ Reply(w, "get_user", wk[w].uid, Null, 200, NewUserData(wk[w].email), <<>>,
           IF users[wk[w].uid].exists THEN "overwritten" ELSE "created")
  /\ UNCHANGED <<authdb, issued, nEvents, ledger, loop>>

(* ----------------------------- delete_user ----------------------------- *)
\* delete_user with its two steps in the other order: the document first
DeleteUserDocFirst(w, uid) ==
  /\ Accept(w)
  /\ users' = [users EXCEPT ![uid] = NoDoc]
  /\ ledger' = [ledger EXCEPT ![uid] = NoAwards]
  /\ IF authdb[uid] # NoEmail
       THEN /\ authdb' = [authdb EXCEPT ![uid] = NoEmail]
            /\ Respond(w, "delete_user", uid, Null, 200)
       ELSE /\ UNCHANGED authdb
            /\ Respond(w, "delete_user", uid, Null, 404)
  /\ UNCHANGED <<issued, loop>>

\* src 179, 186-187: auth.delete_user(uid); UserNotFoundError is answered 404
DeleteUser(w, uid) ==
  /\ Accept(w)
  /\ IF authdb[uid] # NoEmail
       THEN /\ authdb' = [authdb EXCEPT ![uid] = NoEmail]
            /\ Goto(w, "delete_user", "del_doc", uid, Null, NoEmail, NoDoc)
       ELSE /\ UNCHANGED authdb
            /\ Respond(w, "delete_user", uid, Null, 404)
  /\ UNCHANGED <<users, issued, ledger, loop>>

\* the second step deleting from another collection: 200 with the document left
DeleteDocElsewhere(w) ==
  /\ wk[w].pc = "del_doc"
  /\ Respond(w, "delete_user", wk[w].uid, Null, 200)
  /\ UNCHANGED <<users, ledger, authdb, issued, nEvents, loop>>

\* src 182-185, 188-190: document(uid).delete() (no error on a missing
\* document), or the datastore fails and the handler answers 500
DeleteDoc(w) ==
  /\ wk[w].pc = "del_doc"
  /\ \/ /\ users' = [users EXCEPT ![wk[w].uid] = NoDoc]
        /\ ledger' = [ledger EXCEPT ![wk[w].uid] = NoAwards]
        /\ Respond(w, "delete_user", wk[w].uid, Null, 200)
     \/ /\ UNCHANGED <<users, ledger>>
        /\ Respond(w, "delete_user", wk[w].uid, Null, 500)
  /\ UNCHANGED <<authdb, issued, nEvents, loop>>

(* ------------------------------ register ------------------------------- *)
\* register without the identity service's EMAIL_EXISTS refusal
RegisterDuplicateEmail(w, email) ==
  /\ Accept(w)
  /\ \E uid \in Uid \ issued :
       /\ authdb' = [authdb EXCEPT ![uid] = email]
       /\ issued' = issued \cup {uid}
       /\ Goto(w, "register", "reg_set", uid, Null, email, NoDoc)
  /\ UNCHANGED <<users, ledger, loop>>

\* src 124, 128-130: auth.create_user; an existing email raises EMAIL_EXISTS;
\* the identity service assigns a uid it never issued before
Register(w, email) ==
  /\ Accept(w)
  /\ IF \E u \in Uid : authdb[u] = email
       THEN /\ Respond(w, "register", NoUid, Null, 400)
            /\ UNCHANGED <<authdb, issued>>
       ELSE \E uid \in Uid \ issued :
              /\ authdb' = [authdb EXCEPT ![uid] = email]
              /\ issued' = issued \cup {uid}
              /\ Goto(w, "register", "reg_set", uid, Null, email, NoDoc)
  /\ UNCHANGED <<users, ledger, loop>>

\* src 125-127: document(user.uid).set(user_data), answered 201
RegisterSet(w) ==
  /\ wk[w].pc = "reg_set"
  /\ users' = [users EXCEPT ![wk[w].uid] = NewUserData(wk[w].email)]
  /\ Respond(w, "register", wk[w].uid, Null, 201)
  /\ UNCHANGED <<authdb, issued, nEvents, ledger, loop>>

(* ----------------------------- leaderboard ----------------------------- *)
LeaderboardLimit == 10

\* the ordering with direction ASCENDING
BeforeAscending(store, u, v) ==
  \/ store[u].total < store[v].total
  \/ store[u].total = store[v].total /\ u <= v

\* order_by('points.total', DESCENDING): Firestore breaks ties by document id,
\* in the direction of the last ordering
Before(store, u, v) ==
  \/ store[u].total > store[v].total
  \/ store[u].total = store[v].total /\ u >= v

RECURSIVE TopDocs(_, _, _)
TopDocs(store, S, k) ==
  IF k = 0 \/ S = {} THEN <<>>
  ELSE LET u == CHOOSE x \in S : \A y \in S : Before(store, x, y)
       IN <<u>> \o TopDocs(store, S \ {u}, k - 1)

\* src 235: the query's documents, in order
LeaderboardQuery(store) ==
  TopDocs(store, {u \in DOMAIN store : store[u].exists}, LeaderboardLimit)

\* src 236: one {email, total_points} entry per document
LeaderboardData(store) ==
  LET query == LeaderboardQuery(store)
  IN [i \in 1 .. Len(query) |->
        [email |-> store[query[i]].email, total_points |-> store[query[i]].total]]

\* src 232-237
Leaderboard(w) ==
  /\ Accept(w)
  /\ Reply(w, "leaderboard", NoUid, Null, 200, NoDoc, LeaderboardData(users), "none")
  /\ UNCHANGED <<users, authdb, issued, ledger, loop>>

(* ------------------------- Arduino ingestion --------------------------- *)
StaleWindow == 15
Backoff == 5
NoTime == -1                         \* last_seen: None

\* what the device can put on the wire before the line end, as tokens
Labels == {"DRY", "wet", "EWASTE", "EWA(U+017F)TE", "PLASTIC"}
Payloads ==
  {<<>>, <<"hb">>, <<"bin42">>, <<"bin42", ",", "WET", ",", "DRY">>}
    \cup {<<d, ",", c>> : d \in Dustbin, c \in Labels}
\* readline(): b'' on a timeout, else the payload with its line end
RawLines == {<<>>} \cup {p \o <<"\r\n">> : p \in Payloads}

IsSpace(t) == t \in {"\r\n", " "}

\* str.strip(): leading and trailing whitespace removed
RECURSIVE LStrip(_)
LStrip(l) == IF l # <<>> /\ IsSpace(Head(l)) THEN LStrip(Tail(l)) ELSE l
RECURSIVE RStrip(_)
RStrip(l) ==
  IF l # <<>> /\ IsSpace(l[Len(l)]) THEN RStrip(SubSeq(l, 1, Len(l) - 1)) ELSE l
Strip(l) == RStrip(LStrip(l))

\* data.split(','): the fields between the commas, each the tokens it holds
RECURSIVE SplitTokens(_)
SplitTokens(l) ==
  IF l = <<>> THEN << <<>> >>
  ELSE IF Head(l) = "," THEN << <<>> >> \o SplitTokens(Tail(l))
  ELSE LET rest == SplitTokens(Tail(l))
       IN << <<Head(l)>> \o Head(rest) >> \o Tail(rest)
\* a field as the string it is (the payloads put one token between commas)
FieldText(f) == IF f = <<>> THEN "" ELSE Head(f)
Split(l) == [i \in 1 .. Len(SplitTokens(l)) |-> FieldText(SplitTokens(l)[i])]

\* str.upper() and str.lower() on the labels; U+017F (long s) is a lowercase
\* letter whose uppercase is S
Upper(t) ==
  CASE t = "wet" -> "WET"
    [] t = "EWA(U+017F)TE" -> "EWASTE"
    [] OTHER -> t
Lower(t) ==
  CASE t = "DRY" -> "dry"
    [] t = "WET" -> "wet"
    [] t = "EWASTE" -> "ewaste"
    [] t = "EWA(U+017F)TE" -> "ewa(U+017F)te"
    [] t = "PLASTIC" -> "plastic"
    [] OTHER -> t

\* a points table that disagrees with the weights of get_user's recomputation
PointsOtherTable(waste_type) ==
  CASE Upper(waste_type) = "DRY" -> 5
    [] Upper(waste_type) = "WET" -> 10
    [] Upper(waste_type) = "EWASTE" -> 8
    [] OTHER -> 0

\* src 101-102: points_map.get(waste_type.upper(), 0)
Points(waste_type) ==
  CASE Upper(waste_type) = "DRY" -> 5
    [] Upper(waste_type) = "WET" -> 8
    [] Upper(waste_type) = "EWASTE" -> 10
    [] OTHER -> 0

\* the thread's position and locals; did: what became of the last line read
NoLine == <<>>
Thread(pc) ==
  [pc |-> pc, line |-> NoLine, user_id |-> NoUid, waste_type |-> "", wake |-> 0,
   did |-> "none"]
Did(pc, line, did) == [Thread(pc) EXCEPT !.line = line, !.did = did]

\* src 64-66: serial.Serial(...) opens the port
Connect ==
  /\ ing.pc = "connect"
  /\ arduino_status' = [status |-> "Connected", last_seen |-> now]
  /\ ing' = Thread("read")
  /\ UNCHANGED <<api, now, nEvents>>

\* src 64, 80-83: the port cannot be opened: SerialException
ConnectFails ==
  /\ ing.pc = "connect"
  /\ arduino_status' = [arduino_status EXCEPT !.status = "Offline"]
  /\ ing' = [Thread("sleep") EXCEPT !.wake = now + Backoff]
  /\ Event
  /\ UNCHANGED <<api, now>>

\* the staleness test without the break of line 79: the loop reads on
StaleCheckNoBreak(last_seen, line, did) ==
  /\ arduino_status' = [status |-> IF now - last_seen > StaleWindow THEN "Offline"
                                   ELSE arduino_status.status,
                        last_seen |-> last_seen]
  /\ ing' = Did("read", line, did)

\* src 76-79: the staleness test that ends an iteration of the read loop
StaleCheck(last_seen, line, did) ==
  IF now - last_seen > StaleWindow
    THEN /\ arduino_status' = [status |-> "Offline", last_seen |-> last_seen]
         /\ ing' = Did("connect", line, did)
    ELSE /\ arduino_status' = [arduino_status EXCEPT !.last_seen = last_seen]
         /\ ing' = Did("read", line, did)

\* the heartbeat filtered before last_seen is written
ReadLineHeartbeatUnseen(raw) ==
  /\ ing.pc = "read"
  /\ Event
  /\ LET line == Strip(raw) IN
       IF line = <<>> THEN StaleCheck(arduino_status.last_seen, NoLine, "empty")
       ELSE IF line = <<"hb">> THEN StaleCheck(arduino_status.last_seen, NoLine, "heartbeat")
       ELSE /\ arduino_status' = [arduino_status EXCEPT !.last_seen = now]
            /\ ing' = Did("process", line, "none")
  /\ UNCHANGED <<api, now>>

\* src 69-79: one readline(); a heartbeat and an empty line go straight to the
\* staleness test, a data line goes to process_arduino_data first
ReadLine(raw) ==
  /\ ing.pc = "read"
  /\ Event
  /\ LET line == Strip(raw) IN
       IF line = <<>> THEN StaleCheck(arduino_status.last_seen, NoLine, "empty")
       ELSE IF line = <<"hb">> THEN StaleCheck(now, NoLine, "heartbeat")
       ELSE /\ arduino_status' = [arduino_status EXCEPT !.last_seen = now]
            /\ ing' = Did("process", line, "none")
  /\ UNCHANGED <<api, now>>

\* src 69, 80-87: readline() raises SerialException (the device is gone) or
\* decode() raises UnicodeDecodeError
ReadFails(status) ==
  /\ ing.pc = "read"
  /\ arduino_status' = [arduino_status EXCEPT !.status = status]
  /\ ing' = [Thread("sleep") EXCEPT !.wake = now + Backoff]
  /\ Event
  /\ UNCHANGED <<api, now>>

\* src 83, 87: time.sleep(5) is over
Wake ==
  /\ ing.pc = "sleep"
  /\ now >= ing.wake
  /\ ing' = Thread("connect")
  /\ UNCHANGED <<api, arduino_status, now, nEvents>>

\* update_points without the early return of line 103
ProcessArduinoDataNoReturn ==
  /\ ing.pc = "process"
  /\ LET fields == Split(ing.line) IN
       IF Len(fields) # 2 THEN ing' = Did("check", ing.line, "bad_fields")
       ELSE \E user_doc \in QueryFirst(users, fields[1]) :
              IF user_doc = NoUid THEN ing' = Did("check", ing.line, "no_user")
              ELSE ing' = [Did("award", ing.line, "none") EXCEPT !.user_id = user_doc,
                                                                !.waste_type = fields[2]]
  /\ UNCHANGED <<api, arduino_status, now, nEvents>>

\* src 92-103: split, the lookup query, and update_points up to its first
\* datastore call; ValueError from the unpacking is caught at 97
ProcessArduinoData ==
  /\ ing.pc = "process"
  /\ LET fields == Split(ing.line) IN
       IF Len(fields) # 2 THEN ing' = Did("check", ing.line, "bad_fields")
       ELSE \E user_doc \in QueryFirst(users, fields[1]) :
              IF user_doc = NoUid THEN ing' = Did("check", ing.line, "no_user")
              ELSE IF Points(fields[2]) = 0 THEN ing' = Did("check", ing.line, "no_points")
              ELSE ing' = [Did("award", ing.line, "none") EXCEPT !.user_id = user_doc,
                                                                !.waste_type = fields[2]]
  /\ UNCHANGED <<api, arduino_status, now, nEvents>>

\* the award written with set(): the document replaced by its points
IncrementPointsBySet(doc, field, points) ==
  [exists |-> TRUE, email |-> NoEmail, linked_dustbin |-> Null,
   dry |-> IF field = "dry" THEN 1 ELSE 0,
   wet |-> IF field = "wet" THEN 1 ELSE 0,
   ewaste |-> IF field = "ewaste" THEN 1 ELSE 0,
   total |-> points]

\* firestore.Increment on points.<field> and points.total, in one update()
IncrementPoints(doc, field, points) ==
  CASE field = "dry" -> [doc EXCEPT !.dry = @ + 1, !.total = @ + points]
    [] field = "wet" -> [doc EXCEPT !.wet = @ + 1, !.total = @ + points]
    [] field = "ewaste" -> [doc EXCEPT !.ewaste = @ + 1, !.total = @ + points]
    [] OTHER -> [doc EXCEPT !.total = @ + points]

Counters == {"dry", "wet", "ewaste"}
Bump(l, field) ==
  CASE field = "dry" -> [l EXCEPT !.dry = @ + 1]
    [] field = "wet" -> [l EXCEPT !.wet = @ + 1]
    [] field = "ewaste" -> [l EXCEPT !.ewaste = @ + 1]
    [] OTHER -> l

\* src 105-113: the update; NotFound (no such document) is caught at 112, and
\* so is the ValueError with which the client library refuses a field path
\* whose element is no plain identifier ([_a-zA-Z][_a-zA-Z0-9]*)
UpdatePoints ==
  /\ ing.pc = "award"
  /\ LET field == Lower(ing.waste_type)
         points == Points(ing.waste_type)
         applied == /\ users' = [users EXCEPT ![ing.user_id] = IncrementPoints(@, field, points)]
                    /\ ledger' = [ledger EXCEPT ![ing.user_id] = Bump(@, field)]
                    /\ ing' = [ing EXCEPT !.pc = "check", !.did = "updated"]
         failed(why) == /\ UNCHANGED <<users, ledger>>
                        /\ ing' = [ing EXCEPT !.pc = "check", !.did = why]
     IN IF ~users[ing.user_id].exists THEN failed("not_found")
        ELSE IF field \in Counters THEN applied
        ELSE failed("bad_field")
  /\ UNCHANGED <<authdb, issued, wk, resp, nEvents, arduino_status, now>>

\* src 76-79, after process_arduino_data returned
CheckStale ==
  /\ ing.pc = "check"
  /\ StaleCheck(arduino_status.last_seen, NoLine, "none")
  /\ UNCHANGED <<api, now, nEvents>>

\* time passes
Tick(d) ==
  /\ now' = now + d
  /\ Event
  /\ UNCHANGED <<api, ing, arduino_status>>

\* src 83, 87: time passes while the thread is in time.sleep(5)
Sleep ==
  /\ ing.pc = "sleep"
  /\ now < ing.wake
  /\ now' = ing.wake
  /\ UNCHANGED <<api, ing, arduino_status, nEvents>>

(* --------------------------- specification ----------------------------- *)
\* The datastore and the identity service outlive the process: a run starts
\* with any accounts, among them documents whose stored total an earlier
\* version left wrong, and identities without a document.
InitDocs(u) ==
  {NoDoc, NewUserData(InitEmail(u)), [NewUserData(InitEmail(u)) EXCEPT !.total = LegacyTotal]}

Init ==
  /\ authdb \in [Uid -> Emails \cup {NoEmail}]
  /\ \A u \in Uid : authdb[u] \in {NoEmail, InitEmail(u)}
  /\ users \in [Uid -> UNION {InitDocs(u) : u \in Uid}]
  /\ \A u \in Uid : users[u] \in InitDocs(u)
  /\ \A u \in Uid : users[u].exists => authdb[u] # NoEmail
  /\ issued = {u \in Uid : authdb[u] # NoEmail \/ users[u].exists}
  /\ wk = [w \in Worker |-> Idle]
  /\ resp = NoResp
  /\ nEvents = MaxEvents
  /\ ing = Thread("connect")
  /\ arduino_status = [status |-> "Offline", last_seen |-> NoTime]
  /\ now = 0
  /\ ledger = [u \in Uid |-> NoAwards]

Next ==
  \/ \E w \in Worker, uid \in Uid, d \in Dustbin : LinkDustbin(w, uid, d)
  \/ \E w \in Worker : LinkUpdate(w)
  \/ \E w \in Worker, uid \in Uid : UnlinkDustbin(w, uid)
  \/ \E w \in Worker, uid \in Uid : GetUser(w, uid)
  \/ \E w \in Worker : GetUserFix(w)
  \/ \E w \in Worker : GetUserAuth(w)
  \/ \E w \in Worker : GetUserSet(w)
  \/ \E w \in Worker, uid \in Uid : DeleteUser(w, uid)
  \/ \E w \in Worker : DeleteDoc(w)
  \/ \E w \in Worker, email \in Emails : Register(w, email)
  \/ \E w \in Worker : RegisterSet(w)
  \/ \E w \in Worker : Leaderboard(w)
  \/ Connect
  \/ ConnectFails
  \/ \E raw \in RawLines : ReadLine(raw)
  \/ \E status \in {"Offline", "Error"} : ReadFails(status)
  \/ Wake
  \/ ProcessArduinoData
  \/ UpdatePoints
  \/ CheckStale
  \/ Tick(StaleWindow + 1)

Spec == Init /\ [][Next]_vars

\* The leaderboard on its own, over collections of up to MaxBoard documents
\* (more than the query's limit), each new or holding one award.
BoardDoc(u, awarded) ==
  IF awarded THEN IncrementPoints(NewUserData(InitEmail(u)), "dry", Points("DRY"))
  ELSE NewUserData(InitEmail(u))

InitBoard ==
  /\ \E n \in 0 .. MaxBoard, awarded \in SUBSET (1 .. MaxBoard) :
       /\ awarded \subseteq 1 .. n
       /\ users = [u \in 1 .. n |-> BoardDoc(u, u \in awarded)]
  /\ authdb = [u \in Uid |-> NoEmail]
  /\ issued = {}
  /\ wk = [w \in Worker |-> Idle]
  /\ resp = NoResp
  /\ nEvents = MaxEvents
  /\ ing = Thread("connect")
  /\ arduino_status = [status |-> "Offline", last_seen |-> NoTime]
  /\ now = 0
  /\ ledger = [u \in Uid |-> NoAwards]

NextBoard == \E w \in Worker : Leaderboard(w)

SpecBoard == InitBoard /\ [][NextBoard]_vars

(* ------------------------------- claims -------------------------------- *)
\* C1: every 200 response of get_user carries a total equal to
\* 5*dry + 8*wet + 10*ewaste of the counters in that same response, also when
\* the stored total differed when the document was read.
C1_ResponseTotal ==
  (resp.op = "get_user" /\ resp.code = 200) =>
     resp.user_data.total
       = 5 * resp.user_data.dry + 8 * resp.user_data.wet + 10 * resp.user_data.ewaste

\* a get_user that found a wrong stored total on a document with awards
C1_Witness ==
  /\ resp.op = "get_user" /\ resp.code = 200 /\ resp.note = "repaired"
  /\ resp.user_data.total # LegacyTotal
  /\ resp.user_data.dry + resp.user_data.wet + resp.user_data.ewaste > 0

\* C2: no two distinct user documents hold the same non-null linked_dustbin.
C2_UniqueLink ==
  \A u, v \in Uid :
    (u # v /\ users[u].exists /\ users[v].exists /\ users[u].linked_dustbin # Null)
      => users[u].linked_dustbin # users[v].linked_dustbin

\* C3: link_dustbin(uid, d), arriving when a document other than uid's holds
\* d, answers 409 and changes no document.
C3_ConflictAlways ==
  [][\A w \in Worker, uid \in Uid, d \in Dustbin :
       (LinkDustbin(w, uid, d) /\ LinkedTo(users, d) \ {uid} # {})
         => (resp'.code = 409 /\ users' = users)]_vars

\* the document after one award of category cat (DRY, WET or EWASTE): that
\* counter one higher, the total higher by the table value
C4_Awarded(doc, cat) ==
  CASE cat = "DRY" -> [doc EXCEPT !.dry = @ + 1, !.total = @ + 5]
    [] cat = "WET" -> [doc EXCEPT !.wet = @ + 1, !.total = @ + 8]
    [] cat = "EWASTE" -> [doc EXCEPT !.ewaste = @ + 1, !.total = @ + 10]

\* C4: for a message "<d>,<c>" whose c uppercases to DRY, WET or EWASTE and
\* whose d is the linked_dustbin of a user document, the update of that
\* document raises the counter of that category by 1 and the total by the table
\* value, and changes nothing else in the collection.
C4_AwardExact ==
  [][(/\ ing.pc = "award" /\ ing'.pc # "award"
      /\ users[ing.user_id].exists
      /\ users[ing.user_id].linked_dustbin = Split(ing.line)[1])
       => users' = [users EXCEPT ![ing.user_id] = C4_Awarded(@, Upper(ing.waste_type))]]_vars

\* C5: the counters of every document equal the awards applied to it: no
\* interleaving of awards with get_user, link_dustbin or unlink_dustbin loses one.
C5_NoLostAward ==
  \A u \in Uid :
    users[u].exists =>
      [dry |-> users[u].dry, wet |-> users[u].wet, ewaste |-> users[u].ewaste] = ledger[u]

\* a message process_arduino_data drops: not two fields, no table category
\* after uppercasing, or a device no document is linked to
C6_Dropped(line) ==
  \/ Len(Split(line)) # 2
  \/ Upper(Split(line)[2]) \notin {"DRY", "WET", "EWASTE"}
  \/ LinkedTo(users, Split(line)[1]) = {}

\* C6: handling a dropped message changes no document, schedules no update,
\* and the loop goes on to its staleness test with the status untouched.
C6_DroppedNoChange ==
  [][(ing.pc = "process" /\ ing' # ing /\ C6_Dropped(ing.line))
       => (users' = users /\ ing'.pc = "check" /\ arduino_status' = arduino_status)]_vars

\* "bin4x,PLASTIC" was dropped although a document is linked to the device
C6_Witness ==
  /\ ing.pc = "check" /\ ing.did = "no_points"
  /\ LinkedTo(users, Split(ing.line)[1]) # {}

\* C7: a heartbeat line is not handed to process_arduino_data, changes no
\* document and sets last_seen to the current time; an empty line changes
\* neither a document nor last_seen.
C7_HeartbeatAndEmpty ==
  [][\A raw \in RawLines :
       ReadLine(raw) =>
         /\ Strip(raw) = <<"hb">> =>
              /\ users' = users
              /\ arduino_status'.last_seen = now
              /\ ing'.pc \notin {"process", "award"}
         /\ Strip(raw) = <<>> =>
              /\ users' = users
              /\ arduino_status'.last_seen = arduino_status.last_seen
              /\ ing'.pc \notin {"process", "award"}]_vars

\* a heartbeat moved last_seen on from the time of the connect
C7_Witness ==
  /\ ing.did = "heartbeat"
  /\ now > 0
  /\ arduino_status.last_seen = now

\* C8: link_dustbin(uid, d) when uid's document alone holds d passes the
\* uniqueness check, and its update answers 200 and leaves the whole collection
\* as it was (so a second link_dustbin(uid, d) changes nothing).
C8_RelinkNoop ==
  [][\A w \in Worker :
       /\ \A uid \in Uid, d \in Dustbin :
            (LinkDustbin(w, uid, d) /\ LinkedTo(users, d) = {uid})
              => (wk'[w].pc = "link_update" /\ users' = users)
       /\ (/\ LinkUpdate(w)
           /\ users[wk[w].uid].exists
           /\ users[wk[w].uid].linked_dustbin = wk[w].dustbin_id)
            => (resp'.code = 200 /\ users' = users)]_vars

\* a link_dustbin answered 200 for the device the account alone already held
C8_Witness ==
  /\ resp.op = "link_dustbin" /\ resp.code = 200 /\ resp.note = "already_linked"
  /\ LinkedTo(users, resp.dustbin_id) = {resp.uid}

\* C9: unlink_dustbin(uid) on an existing user document answers 200 and leaves
\* its linked_dustbin null whatever it was; on a document already unlinked it
\* changes nothing (unlink twice is unlink once).
C9_UnlinkIdempotent ==
  [][\A w \in Worker, uid \in Uid :
       (UnlinkDustbin(w, uid) /\ users[uid].exists)
         => /\ resp'.code = 200
            /\ users'[uid].linked_dustbin = Null
            /\ users[uid].linked_dustbin = Null => users' = users]_vars

\* an unlink answered 200 on an account that had nothing linked
C9_Witness ==
  /\ resp.op = "unlink_dustbin" /\ resp.code = 200 /\ resp.note = "already_unlinked"
  /\ users[resp.uid].linked_dustbin = Null

C10_Docs == {u \in DOMAIN users : users[u].exists}
C10_Min(a, b) == IF a <= b THEN a ELSE b
\* the board has at most 10 entries, each a document's {email, total}, and
\* its totals are the highest stored ones
C10_TopTen ==
  /\ Len(resp.board) = C10_Min(10, Cardinality(C10_Docs))
  /\ \A i \in 1 .. Len(resp.board) :
       \E u \in C10_Docs : /\ resp.board[i].email = users[u].email
                           /\ resp.board[i].total_points = users[u].total
  /\ \A u \in C10_Docs :
       Cardinality({i \in 1 .. Len(resp.board) : resp.board[i].total_points >= users[u].total})
         = C10_Min(Len(resp.board),
                   Cardinality({v \in C10_Docs : users[v].total >= users[u].total}))

\* C10 as stated: at most 10 entries, the highest totals, each entry's total
\* greater than the next one's.
C10_StrictlyDescending ==
  resp.op = "leaderboard" =>
    /\ C10_TopTen
    /\ \A i \in 1 .. Len(resp.board) - 1 :
         resp.board[i].total_points > resp.board[i + 1].total_points

\* C10 amended: at most 10 entries, the highest totals, no entry's total
\* smaller than the next one's (documents with equal totals are all listed).
C10_Descending ==
  resp.op = "leaderboard" =>
    /\ C10_TopTen
    /\ \A i \in 1 .. Len(resp.board) - 1 :
         resp.board[i].total_points >= resp.board[i + 1].total_points

\* more documents than the limit, a board of 10 with both totals on it and a
\* tie, and a document left out
C10_Witness ==
  /\ resp.op = "leaderboard"
  /\ Cardinality(C10_Docs) > 10
  /\ Len(resp.board) = 10
  /\ resp.board[1].total_points > resp.board[10].total_points
  /\ resp.board[1].total_points = resp.board[2].total_points

\* C11: register with an email the identity service already holds answers 400
\* and creates no identity and no document; otherwise it creates one identity,
\* and its set() writes that identity's document with zero counters, zero
\* total and no linked device, answered 201.
C11_Register ==
  [][\A w \in Worker :
       /\ \A email \in Emails :
            Register(w, email) =>
              IF \E u \in Uid : authdb[u] = email
                THEN resp'.code = 400 /\ authdb' = authdb /\ users' = users /\ wk'[w] = Idle
                ELSE /\ users' = users
                     /\ \E uid \in Uid :
                          /\ authdb[uid] = NoEmail /\ ~users[uid].exists
                          /\ authdb' = [authdb EXCEPT ![uid] = email]
                          /\ wk'[w].pc = "reg_set" /\ wk'[w].uid = uid /\ wk'[w].email = email
       /\ RegisterSet(w) =>
            /\ resp'.code = 201 /\ resp'.uid = wk[w].uid
            /\ authdb' = authdb
            /\ users' = [users EXCEPT ![wk[w].uid] =
                           [exists |-> TRUE, email |-> wk[w].email, linked_dustbin |-> Null,
                            dry |-> 0, wet |-> 0, ewaste |-> 0, total |-> 0]]]_vars

\* a register answered 201 whose identity and zero document are there, next to
\* another account
C11_Witness ==
  /\ resp.op = "register" /\ resp.code = 201
  /\ authdb[resp.uid] # NoEmail
  /\ users[resp.uid].exists /\ users[resp.uid].email = authdb[resp.uid]
  /\ users[resp.uid].total = 0 /\ users[resp.uid].linked_dustbin = Null
  /\ \E u \in Uid \ {resp.uid} : authdb[u] # NoEmail

\* C12: delete_user(uid) for a uid without identity answers 404 and writes
\* nothing, also when a document with that id exists.
C12_DeleteUnknown ==
  [][\A w \in Worker, uid \in Uid :
       (DeleteUser(w, uid) /\ authdb[uid] = NoEmail)
         => (resp'.code = 404 /\ users' = users /\ authdb' = authdb /\ wk'[w] = Idle)]_vars

\* a delete answered 404 for a uid whose document is there without identity
C12_Witness ==
  /\ resp.op = "delete_user" /\ resp.code = 404
  /\ authdb[resp.uid] = NoEmail
  /\ users[resp.uid].exists

\* the steps of get_user served by worker w
C13_Step(w) ==
  \/ \E uid \in Uid : GetUser(w, uid)
  \/ GetUserFix(w)
  \/ GetUserAuth(w)
  \/ GetUserSet(w)

\* C13: get_user answers 404 and writes nothing when uid has neither document
\* nor identity; with the identity and no document it writes a document with
\* the identity's email, no linked device and zero points and answers 200 with
\* it; and whenever uid's document exists, a step of get_user changes no field
\* of it other than the total, and no other document.
C13_GetUser ==
  [][\A w \in Worker :
       /\ (GetUserAuth(w) /\ authdb[wk[w].uid] = NoEmail /\ ~users[wk[w].uid].exists)
            => (resp'.code = 404 /\ users' = users /\ authdb' = authdb)
       /\ (GetUserAuth(w) /\ authdb[wk[w].uid] # NoEmail)
            => (wk'[w].pc = "gu_set" /\ wk'[w].email = authdb[wk[w].uid] /\ users' = users)
       /\ (GetUserSet(w) /\ ~users[wk[w].uid].exists)
            => /\ users' = [users EXCEPT ![wk[w].uid] =
                              [exists |-> TRUE, email |-> wk[w].email, linked_dustbin |-> Null,
                               dry |-> 0, wet |-> 0, ewaste |-> 0, total |-> 0]]
               /\ resp'.code = 200 /\ resp'.user_data = users'[wk[w].uid]
       /\ (C13_Step(w) /\ wk[w].op = "get_user" /\ users[wk[w].uid].exists)
            => users' = [users EXCEPT ![wk[w].uid].total = users'[wk[w].uid].total]]_vars

\* The ingestion thread on its own, over a datastore with one linked account,
\* followed for two events more, with the clock also advancing by the backoff
\* and by exactly the staleness window.
InitLoop ==
  /\ authdb = [u \in Uid |-> IF u = 1 THEN InitEmail(u) ELSE NoEmail]
  /\ users = [u \in Uid |-> IF u = 1
                THEN [NewUserData(InitEmail(u)) EXCEPT !.linked_dustbin = "bin42"]
                ELSE NoDoc]
  /\ issued = {1}
  /\ wk = [w \in Worker |-> Idle]
  /\ resp = NoResp
  /\ nEvents = MaxEvents + 2
  /\ ing = Thread("connect")
  /\ arduino_status = [status |-> "Offline", last_seen |-> NoTime]
  /\ now = 0
  /\ ledger = [u \in Uid |-> NoAwards]

NextLoop ==
  \/ Connect
  \/ ConnectFails
  \/ \E raw \in RawLines : ReadLine(raw)
  \/ \E status \in {"Offline", "Error"} : ReadFails(status)
  \/ Sleep
  \/ Wake
  \/ ProcessArduinoData
  \/ UpdatePoints
  \/ CheckStale
  \/ \E d \in {Backoff, StaleWindow, StaleWindow + 1} : Tick(d)

SpecLoop == InitLoop /\ [][NextLoop]_vars

\* C14: a step of the read loop that reaches the staleness test with
\* now - last_seen above 15 sets the status Offline and leaves the read loop
\* for a new connection attempt; the loop never returns to readline() stale
\* or with a status other than Connected.
C14_Staleness ==
  [][((\E raw \in RawLines : ReadLine(raw)) \/ CheckStale) =>
       /\ now - arduino_status'.last_seen > 15
            => (arduino_status'.status = "Offline" /\ ing'.pc = "connect")
       /\ ing'.pc = "read"
            => (arduino_status'.status = "Connected"
                /\ now - arduino_status'.last_seen <= 15)]_vars

\* a read that timed out more than 15 after the last line: Offline, and the
\* thread about to open the port again
C14_Witness ==
  /\ ing.pc = "connect" /\ ing.did = "empty"
  /\ arduino_status.status = "Offline"
  /\ arduino_status.last_seen # NoTime
  /\ now - arduino_status.last_seen > 15

\* C15: a failure to open the port sets the status Offline, any other failure
\* sets it Error, and after either the thread sleeps for the backoff of 5 and
\* then opens the port again.
C15_FailureStatus ==
  [][/\ ConnectFails
          => (arduino_status'.status = "Offline"
              /\ ing'.pc = "sleep" /\ ing'.wake = now + 5)
     /\ \A status \in {"Offline", "Error"} :
          ReadFails(status)
            => (arduino_status'.status = "Error"
                /\ ing'.pc = "sleep" /\ ing'.wake = now + 5)
     /\ Wake => (ing'.pc = "connect" /\ now >= ing.wake)]_vars

\* The thread is always scheduled again: its sleep ends and its next
\* serial.Serial(...) call returns. The port stops failing once the
\* environment's events are used up.
FairLoop == SpecLoop /\ WF_vars(Sleep) /\ WF_vars(Wake) /\ WF_vars(Connect)

\* C15, the retry: from every Offline or Error state the status becomes
\* Connected again.
C15_Reconnects ==
  (arduino_status.status \in {"Offline", "Error"}) ~> (arduino_status.status = "Connected")

\* the store differs from the old one in nothing but uid's linked_dustbin
C16_OnlyLink(uid) ==
  users' = [users EXCEPT ![uid].linked_dustbin = users'[uid].linked_dustbin]

\* the store differs from the old one in nothing but uid's points
C16_OnlyPoints(uid) ==
  users' = [users EXCEPT ![uid].dry = users'[uid].dry, ![uid].wet = users'[uid].wet,
                         ![uid].ewaste = users'[uid].ewaste, ![uid].total = users'[uid].total]

\* C16: every step of link_dustbin and unlink_dustbin changes at most the
\* linked_dustbin of the target document, every step of a point award at most
\* the points of the attributed document, and none of them creates or deletes
\* a document or touches an identity.
C16_Frame ==
  [][/\ \A w \in Worker :
          /\ \A uid \in Uid :
               /\ (\E d \in Dustbin : LinkDustbin(w, uid, d)) => users' = users
               /\ UnlinkDustbin(w, uid) => C16_OnlyLink(uid)
          /\ LinkUpdate(w) => C16_OnlyLink(wk[w].uid)
     /\ ProcessArduinoData => users' = users
     /\ UpdatePoints => C16_OnlyPoints(ing.user_id)
     /\ ((\E w \in Worker : LinkUpdate(w) \/ \E uid \in Uid : UnlinkDustbin(w, uid))
           \/ UpdatePoints)
          => (authdb' = authdb /\ \A u \in Uid : users'[u].exists = users[u].exists)]_vars

\* an award applied to a linked document, its link and email in place
C16_Witness ==
  /\ ing.pc = "check" /\ ing.did = "updated"
  /\ users[ing.user_id].exists
  /\ users[ing.user_id].linked_dustbin = Split(ing.line)[1]
  /\ users[ing.user_id].email # NoEmail
  /\ users[ing.user_id].total > 0

\* C17: when get_user's repair write has been made and answered 200, the
\* stored document satisfies total = 5*dry + 8*wet + 10*ewaste, also when an
\* award was applied to it between get_user's read and the write.
C17_RepairedInPlace ==
  [][\A w \in Worker :
       (GetUserFix(w) /\ resp'.code = 200)
         => users'[wk[w].uid].total
              = 5 * users'[wk[w].uid].dry + 8 * users'[wk[w].uid].wet
                + 10 * users'[wk[w].uid].ewaste]_vars

\* C18: delete_user removes the identity in its first step, leaving the
\* document; its second step either deletes the document and answers 200, with
\* neither identity nor document left, or fails and answers 500, with the
\* identity gone and the document as it was.
C18_DeleteOrder ==
  [][\A w \in Worker :
       /\ \A uid \in Uid :
            (DeleteUser(w, uid) /\ authdb[uid] # NoEmail)
              => (authdb'[uid] = NoEmail /\ users' = users /\ wk'[w].pc = "del_doc")
       /\ DeleteDoc(w) =>
            /\ resp'.code \in {200, 500}
            /\ authdb' = authdb /\ authdb[wk[w].uid] = NoEmail
            /\ resp'.code = 200 => ~users'[wk[w].uid].exists
            /\ resp'.code = 500 => users' = users]_vars

\* a delete answered 500: the identity is gone, the linked document is there
C18_Witness ==
  /\ resp.op = "delete_user" /\ resp.code = 500
  /\ authdb[resp.uid] = NoEmail
  /\ users[resp.uid].exists /\ users[resp.uid].linked_dustbin # Null

\* C19: once delete_user(uid) has answered 200 no document with id uid exists
\* any more, whatever get_user, awards, link_dustbin and unlink_dustbin on that
\* uid are in flight; stated for the step that follows the answer.
C19_NoResurrection ==
  [][\A uid \in Uid :
       (resp.op = "delete_user" /\ resp.code = 200 /\ resp.uid = uid)
         => ~users'[uid].exists]_vars

\* A datastore whose documents were all written by register or by get_user's
\* auto-create, and the program without get_user's repair write, which C20
\* shows no such run reaches.
InitFresh ==
  /\ authdb \in [Uid -> Emails \cup {NoEmail}]
  /\ \A u \in Uid : authdb[u] \in {NoEmail, InitEmail(u)}
  /\ users \in [Uid -> {NoDoc} \cup {NewUserData(InitEmail(u)) : u \in Uid}]
  /\ \A u \in Uid : users[u].exists
                      => (authdb[u] # NoEmail /\ users[u].email = InitEmail(u))
  /\ issued = {u \in Uid : authdb[u] # NoEmail}
  /\ wk = [w \in Worker |-> Idle]
  /\ resp = NoResp
  /\ nEvents = MaxEvents
  /\ ing = Thread("connect")
  /\ arduino_status = [status |-> "Offline", last_seen |-> NoTime]
  /\ now = 0
  /\ ledger = [u \in Uid |-> NoAwards]

NextFresh ==
  \/ \E w \in Worker, uid \in Uid, d \in Dustbin : LinkDustbin(w, uid, d)
  \/ \E w \in Worker : LinkUpdate(w)
  \/ \E w \in Worker, uid \in Uid : UnlinkDustbin(w, uid)
  \/ \E w \in Worker, uid \in Uid : GetUser(w, uid)
  \/ \E w \in Worker : GetUserAuth(w)
  \/ \E w \in Worker : GetUserSet(w)
  \/ \E w \in Worker, uid \in Uid : DeleteUser(w, uid)
  \/ \E w \in Worker : DeleteDoc(w)
  \/ \E w \in Worker, email \in Emails : Register(w, email)
  \/ \E w \in Worker : RegisterSet(w)
  \/ \E w \in Worker : Leaderboard(w)
  \/ Connect
  \/ ConnectFails
  \/ \E raw \in RawLines : ReadLine(raw)
  \/ \E status \in {"Offline", "Error"} : ReadFails(status)
  \/ Wake
  \/ ProcessArduinoData
  \/ UpdatePoints
  \/ CheckStale
  \/ Tick(StaleWindow + 1)

SpecFresh == InitFresh /\ [][NextFresh]_vars

\* One account whose identity exists and whose document is missing (what a
\* register whose set() failed leaves), followed for one event more; no
\* document has a total to repair.
InitIdentityOnly ==
  /\ authdb = [u \in Uid |-> IF u = 1 THEN InitEmail(u) ELSE NoEmail]
  /\ users = [u \in Uid |-> NoDoc]
  /\ issued = {1}
  /\ wk = [w \in Worker |-> Idle]
  /\ resp = NoResp
  /\ nEvents = MaxEvents + 1
  /\ ing = Thread("connect")
  /\ arduino_status = [status |-> "Offline", last_seen |-> NoTime]
  /\ now = 0
  /\ ledger = [u \in Uid |-> NoAwards]

SpecIdentityOnly == InitIdentityOnly /\ [][NextFresh]_vars

\* C20: from a datastore written by register and auto-create only, every
\* stored document has total = 5*dry + 8*wet + 10*ewaste with no negative
\* value, and no get_user ever finds a total to repair.
C20_Consistent ==
  /\ \A u \in Uid :
       users[u].exists =>
         /\ users[u].total = 5 * users[u].dry + 8 * users[u].wet + 10 * users[u].ewaste
         /\ users[u].dry >= 0 /\ users[u].wet >= 0
         /\ users[u].ewaste >= 0 /\ users[u].total >= 0
  /\ \A w \in Worker : wk[w].pc # "gu_fix"

\* get_user answered with a document as stored that holds an award
C20_Witness ==
  /\ resp.op = "get_user" /\ resp.code = 200 /\ resp.note = "as_stored"
  /\ resp.user_data.total > 0
  /\ users[resp.uid] = resp.user_data
====
